---- MODULE Spec2Model ----
(***************************************************************************)
(* Distributed Game of Life: the broker (gol/broker/broker.go), the worker *)
(* (worker main package) and the calls the client (gol/distributor.go)     *)
(* makes on the broker.                                                    *)
(*                                                                         *)
(* Go slices are 0-based, TLA+ sequences 1-based: the Go element s[i] is   *)
(* s[i+1] here.  Every access to a field of BrokerService that the code    *)
(* makes without synchronisation is one step of the model, so that the     *)
(* interleavings of the RPC goroutines are those of the program.           *)
(***************************************************************************)
EXTENDS Integers, Sequences, FiniteSets, TLC

\* ------------------------------------------------------------- bounds

\* Grids of SpecGrid have at most MaxCells cells (Height * Width).
MaxCells == 9
\* Worker counts of SpecGrid are 1 .. min(Height, MaxWorkers).
MaxWorkers == 3

\* ------------------------------------------------------- program state

VARIABLES
    \* BrokerService (broker.go, lines 91-100); the channels quit and pause are
    \* unbuffered, so they hold no state: a sender stays at its send until the
    \* run loop takes the value
    bTurns,        \* b.Turns
    bCellsCount,   \* b.CellsCount
    bWorld,        \* b.World
    isPaused,      \* b.isPaused
    \* BrokerService.Process
    pc,            \* its position ("idle": no run call in progress)
    turns,         \* req.Turns
    turn,          \* the loop counter
    world,         \* the local `world`
    recv,          \* the value received from b.pause (the local isPaused)
    incTmp,        \* b.Turns++: the value read
    res,           \* the response of the run call
    \* World.update
    numWorkers,    \* len(workerAddrs)
    regions,       \* the Region dispatched to each worker
    replies,       \* per worker: the band its goroutine sends on regionChannel[w]
    newFieldData,
    wIdx,          \* the fan-in index w
    dialed,        \* the workers whose goroutine (Region.update) holds an open connection
    \* BrokerService.Pause, one call at a time per caller
    pausePc, pauseTmp, pauseVal, pauseRes,   \* position, the flag read, the value sent, res.IsPaused
    \* BrokerService.Quit
    quitPc, quitRes,
    \* BrokerService.Report
    repPc, repRes,   \* position, res.Turns
    \* BrokerService.Shutdown
    shutPc,        \* its position
    shutIdx,       \* the index of ipAddress in b.addresses
    \* the processes
    broker,        \* "up": main waits at <-b.shutdown; "signalled": main has received;
                   \* "exited": main has closed the listener and returned; "fatal": log.Fatal
    workerUp,      \* per worker: its main waits at <-w.shutdown, its listener is open
    \* history: what the calls did, read by the properties only
    reqWorld,      \* the World the run (the update) started from
    gens,          \* World.update calls completed in this run
    calls,         \* the number of calls the clients have still to issue, per procedure
    hist           \* what the calls in progress saw when they were issued

brokerVars == <<bTurns, bCellsCount, bWorld, isPaused>>
procVars == <<pc, turns, turn, world, recv, incTmp, res>>
updVars == <<numWorkers, regions, replies, newFieldData, wIdx, dialed>>
pauseVars == <<pausePc, pauseTmp, pauseVal, pauseRes>>
quitVars == <<quitPc, quitRes>>
repVars == <<repPc, repRes>>
shutVars == <<shutPc, shutIdx, broker, workerUp>>
histVars == <<reqWorld, gens, calls, hist>>

vars == <<brokerVars, procVars, updVars, pauseVars, quitVars, repVars, shutVars, histVars>>

\* the broker process runs: its main has not returned (line 331) and neither
\* log.Fatal nor a panic has ended it; every step of the broker needs it
Running == broker \in {"up", "signalled"}

\* ---------------------------------------------------------- grid model

Cell(x, y, alive) == [X |-> x, Y |-> y, Alive |-> alive]

\* World{Field: Field{Data, Height, Width}, Height, Width}
World(data, height, width) ==
    [Field |-> [Data |-> data, Height |-> height, Width |-> width],
     Height |-> height, Width |-> width]

\* The zero value World{} (Quit's reset, an unset response)
EmptyWorld == World(<<>>, 0, 0)

\* distributor: cultivate, then populate: cell (x, y) carries its coordinates
populate(height, width, alive) ==
    World([y \in 1..height |-> [x \in 1..width |-> Cell(x - 1, y - 1, <<x - 1, y - 1>> \in alive)]],
          height, width)

aliveCellsInRow(row, y) == {<<x - 1, y>> : x \in {i \in 1..Len(row) : row[i].Alive}}

\* World.alive: the coordinates (slice index) of the alive cells
WorldAlive(w) ==
    UNION {aliveCellsInRow(w.Field.Data[y], y - 1) : y \in 1..Len(w.Field.Data)}

\* --------------------------------------------------- broker: partition

WorldRegionNoRemainder(w, i, n) ==
    LET regionHeight == w.Height \div n
        start == i * regionHeight
        end == (i + 1) * regionHeight
        downRowPtr == end % w.Height
        upRowPtr == (start - 1 + w.Height) % w.Height
    IN  [Field |-> [row \in 1..(regionHeight + 2) |->
                       IF row = 1 THEN w.Field.Data[upRowPtr + 1]
                       ELSE IF row = regionHeight + 2 THEN w.Field.Data[downRowPtr + 1]
                       ELSE w.Field.Data[start + row - 1]],
         Start |-> start, End |-> end, Height |-> regionHeight, Width |-> w.Width]

WorldRegionHaloInside(w, i, n) ==
    LET regionHeight0 == w.Height \div n
        start == i * regionHeight0
        end == IF i = n - 1 THEN w.Height ELSE (i + 1) * regionHeight0
        regionHeight == end - start
        downRowPtr == (end - 1) % w.Height
        upRowPtr == (start - 1 + w.Height) % w.Height
    IN  [Field |-> [row \in 1..(regionHeight + 2) |->
                       IF row = 1 THEN w.Field.Data[upRowPtr + 1]
                       ELSE IF row = regionHeight + 2 THEN w.Field.Data[downRowPtr + 1]
                       ELSE w.Field.Data[start + row - 1]],
         Start |-> start, End |-> end, Height |-> regionHeight, Width |-> w.Width]

\* World.region(w, numWorkers): band i of n, with its two halo rows
WorldRegion(w, i, n) ==
    LET regionHeight0 == w.Height \div n
        start == i * regionHeight0
        end == IF i = n - 1 THEN w.Height ELSE (i + 1) * regionHeight0
        regionHeight == end - start
        downRowPtr == end % w.Height
        upRowPtr == (start - 1 + w.Height) % w.Height
    IN  [Field |-> [row \in 1..(regionHeight + 2) |->
                       IF row = 1 THEN w.Field.Data[upRowPtr + 1]
                       ELSE IF row = regionHeight + 2 THEN w.Field.Data[downRowPtr + 1]
                       ELSE w.Field.Data[start + row - 1]],
         Start |-> start, End |-> end, Height |-> regionHeight, Width |-> w.Width]

\* ------------------------------------------------------ worker: the rule

DefaultHaloOffset == 1

\* the loops over i (column offset) and j (row offset), lines 76-86:
\* y is the Go row index in region.Field (halo included), x the Go column
aliveNeighbours(region, y, x) ==
    Cardinality({ij \in (-1..1) \X (-1..1) :
        LET wx == (x + ij[1] + region.Width) % region.Width
            wy == y + ij[2]
        IN  (ij[2] # 0 \/ ij[1] # 0) /\ region.Field[wy + 1][wx + 1].Alive})

NextCellBornOnTwo(currentCell, n) ==
    LET c1 == IF n < 2 \/ n > 3 THEN [currentCell EXCEPT !.Alive = FALSE] ELSE currentCell
    IN  IF n >= 2 /\ n <= 3 THEN [c1 EXCEPT !.Alive = TRUE] ELSE c1

\* lines 74, 87-92: nextCell from currentCell and the count
NextCell(currentCell, n) ==
    LET c1 == IF n < 2 \/ n > 3 THEN [currentCell EXCEPT !.Alive = FALSE] ELSE currentCell
    IN  IF n = 3 THEN [c1 EXCEPT !.Alive = TRUE] ELSE c1

RegionUpdateKeepHalo(region) == region

\* Region.update of the worker: a fresh Height x Width field (cultivate), every
\* cell of it written from region.Field, which is replaced only at the end
RegionUpdate(region) ==
    [region EXCEPT !.Field =
        [yy \in 1..region.Height |->
            [xx \in 1..region.Width |->
                LET y == yy - 1 + DefaultHaloOffset
                    x == xx - 1
                IN  NextCell(region.Field[y + 1][x + 1], aliveNeighbours(region, y, x))]]]

\* WorkerService.Process: the response's Region
WorkerProcess(region) == RegionUpdate(region)

\* ----------------------------------------- broker: one generation step

\* a result slot: <<>> while the worker has not responded, <<band>> once it has
NoReply == <<>>

AppendRowsReversed(data, band) == band \o data

\* line 192: newFieldData = append(newFieldData, region...)
AppendRows(data, band) == data \o band


FanInDoneEarly(w, n) == w >= 1

\* line 190: the fan-in loop has received from every channel (w = numWorkers)
FanInDone(w, n) == w = n

FanInSlotLastReady(w, rs) ==
    IF \E v \in DOMAIN rs : rs[v] # NoReply
    THEN CHOOSE v \in DOMAIN rs : rs[v] # NoReply /\ \A u \in DOMAIN rs : rs[u] # NoReply => u <= v
    ELSE w

\* line 191: iteration w of the fan-in receives from regionChannel[w], whatever
\* the other result slots rs hold
FanInSlot(w, rs) == w

\* World.region, lines 153-157: the rows it reads are the rows 0 .. Height-1
\* of world.Field.Data, over the workers all of them
RowsInRange(w) == Len(w.Field.Data) >= w.Height

\* World.update, lines 171-188: a region and a goroutine per worker
UpdateFanOut ==
    /\ Running
    /\ pc = "update"
    /\ RowsInRange(world)
    /\ regions' = [w \in 0..(numWorkers - 1) |-> WorldRegion(world, w, numWorkers)]
    /\ replies' = [w \in 0..(numWorkers - 1) |-> NoReply]
    /\ newFieldData' = <<>>
    /\ wIdx' = 0
    /\ dialed' = {}
    /\ pc' = "collect"
    /\ UNCHANGED <<turns, turn, world, recv, incTmp, res, numWorkers>>
    /\ UNCHANGED <<brokerVars, pauseVars, quitVars, repVars, histVars>>
    /\ UNCHANGED shutVars

\* Region.update of the broker, lines 122-126: rpc.Dial reaches worker w
WorkerDial(w) ==
    /\ Running
    /\ pc = "collect"
    /\ replies[w] = NoReply
    /\ w \notin dialed
    /\ workerUp[w]
    /\ dialed' = dialed \cup {w}
    /\ UNCHANGED <<numWorkers, regions, replies, newFieldData, wIdx>>
    /\ UNCHANGED <<brokerVars, procVars, pauseVars, quitVars, repVars, histVars>>
    /\ UNCHANGED shutVars

\* Region.update of the broker, lines 121-134: worker w is up, its response
\* has arrived (after the dial, when that was not a step of its own) and its
\* goroutine is at the send on regionChannel[w]
WorkerReply(w) ==
    /\ Running
    /\ pc = "collect"
    /\ replies[w] = NoReply
    /\ workerUp[w]
    /\ replies' = [replies EXCEPT ![w] = <<WorkerProcess(regions[w]).Field>>]
    /\ dialed' = dialed \ {w}
    /\ UNCHANGED <<numWorkers, regions, newFieldData, wIdx>>
    /\ UNCHANGED <<brokerVars, procVars, pauseVars, quitVars, repVars, histVars>>
    /\ UNCHANGED shutVars

\* lines 122-125: rpc.Dial fails, worker w listens no more; log.Fatal ends
\* the broker process
WorkerDialFatal(w) ==
    /\ Running
    /\ pc = "collect"
    /\ replies[w] = NoReply
    /\ w \notin dialed
    /\ ~workerUp[w]
    /\ broker' = "fatal"
    /\ UNCHANGED <<shutPc, shutIdx, workerUp>>
    /\ UNCHANGED <<brokerVars, procVars, updVars, pauseVars, quitVars, repVars, histVars>>

\* lines 129-133: the worker process has ended with the call in progress;
\* client.Call returns an error, which is dropped, and the zero
\* response.Region.Field (no rows) is sent on regionChannel[w]
WorkerCallError(w) ==
    /\ Running
    /\ pc = "collect"
    /\ replies[w] = NoReply
    /\ w \in dialed
    /\ ~workerUp[w]
    /\ replies' = [replies EXCEPT ![w] = <<(<<>>)>>]
    /\ dialed' = dialed \ {w}
    /\ UNCHANGED <<numWorkers, regions, newFieldData, wIdx>>
    /\ UNCHANGED <<brokerVars, procVars, pauseVars, quitVars, repVars, histVars>>
    /\ UNCHANGED shutVars

\* World.region, lines 153-157, on a grid that has lost rows: the index is
\* out of range and the panic, which net/rpc does not recover, ends the
\* broker process
UpdatePanic ==
    /\ Running
    /\ pc = "update"
    /\ ~RowsInRange(world)
    /\ broker' = "fatal"
    /\ UNCHANGED <<shutPc, shutIdx, workerUp>>
    /\ UNCHANGED <<brokerVars, procVars, updVars, pauseVars, quitVars, repVars, histVars>>

\* lines 190-193: receive worker w's band and append it
UpdateCollect ==
    /\ Running
    /\ pc = "collect"
    /\ ~FanInDone(wIdx, numWorkers)
    /\ replies[FanInSlot(wIdx, replies)] # NoReply
    /\ newFieldData' = AppendRows(newFieldData, replies[FanInSlot(wIdx, replies)][1])
    /\ wIdx' = wIdx + 1
    /\ UNCHANGED <<numWorkers, regions, replies, dialed>>
    /\ UNCHANGED <<brokerVars, procVars, pauseVars, quitVars, repVars, histVars>>
    /\ UNCHANGED shutVars

\* line 195: world.Field.Data = newFieldData, and the return to Process
UpdateReturn ==
    /\ Running
    /\ pc = "collect"
    /\ FanInDone(wIdx, numWorkers)
    /\ world' = [world EXCEPT !.Field.Data = newFieldData]
    /\ pc' = "updated"
    /\ gens' = gens + 1
    /\ regions' = <<>>
    /\ replies' = <<>>
    /\ newFieldData' = <<>>
    /\ wIdx' = 0
    /\ dialed' = {}
    /\ UNCHANGED <<turns, turn, recv, incTmp, res, numWorkers, reqWorld, calls, hist>>
    /\ UNCHANGED <<brokerVars, pauseVars, quitVars, repVars>>
    /\ UNCHANGED shutVars

WorldUpdateStep ==
    \/ UpdateFanOut
    \/ \E w \in 0..(numWorkers - 1) : WorkerReply(w)
    \/ UpdateCollect
    \/ UpdateReturn

\* the calls of a generation on workers that are shutting down
WorkerFailStep ==
    \/ \E w \in 0..(numWorkers - 1) : WorkerDial(w)
    \/ \E w \in 0..(numWorkers - 1) : WorkerDialFatal(w)
    \/ \E w \in 0..(numWorkers - 1) : WorkerCallError(w)
    \/ UpdatePanic

\* ------------------------------------------------- the callers' inputs

\* the configured worker list of main, line 315
NumAddresses == 2

\* a run request asks for 1 .. MaxTurns turns
MaxTurns == 2
\* Spec: the clients issue at most MaxRuns run calls, one after the other
MaxRuns == 2
\* SpecPause: the clients issue at most MaxPauseCalls Pause calls
MaxPauseCalls == 2

\* two clients may each have a Pause call in flight
Pausers == {"p1", "p2"}

\* the World of the run requests: 3 rows of 4 cells, whose generations 0..4
\* differ and have 6, 4, 7, 1 and 0 alive cells
SeedWorld ==
    populate(3, 4, {<<3, 0>>, <<2, 1>>, <<3, 1>>, <<0, 2>>, <<2, 2>>, <<3, 2>>})

\* a response record as the RPC server allocates it: zero values
ZeroResponse == [World |-> EmptyWorld, Turns |-> 0]

\* ---------------------------------------------- BrokerService.Process

\* lines 222-226: the run call arrives with Turns n and World w (one run
\* call at a time)
StartRunWith(n, w) ==
    /\ Running
    /\ pc = "idle"
    /\ calls.run > 0
    /\ turns' = n
    /\ world' = w
    /\ turn' = 0
    /\ res' = ZeroResponse
    /\ pc' = "loop"
    /\ reqWorld' = w
    /\ gens' = 0
    /\ calls' = [calls EXCEPT !.run = @ - 1]
    /\ hist' = [hist EXCEPT !.quitAck = FALSE, !.repAfterQuit = FALSE,
                            !.staleQuit = (quitPc = "sending"),
                            !.stalePause = [c \in Pausers |-> pausePc[c] = "sending"]]
    /\ UNCHANGED <<recv, incTmp>>
    /\ UNCHANGED <<brokerVars, updVars, pauseVars, quitVars, repVars>>
    /\ UNCHANGED shutVars

StartRun(n) == StartRunWith(n, SeedWorld)

\* line 228 false, lines 253-256
ProcReturn ==
    /\ Running
    /\ pc = "loop"
    /\ ~(turn < turns)
    /\ res' = [World |-> world, Turns |-> bTurns]
    /\ pc' = "done"
    /\ UNCHANGED <<turns, turn, world, recv, incTmp>>
    /\ UNCHANGED <<brokerVars, updVars, pauseVars, quitVars, repVars, histVars>>
    /\ UNCHANGED shutVars

\* line 230: the select takes the value a Pause call is sending
ProcSelectPause(c) ==
    /\ Running
    /\ pc = "loop"
    /\ turn < turns
    /\ pausePc[c] = "sending"
    /\ recv' = pauseVal[c]
    /\ pausePc' = [pausePc EXCEPT ![c] = "sent"]
    /\ pc' = "setPaused"
    /\ UNCHANGED <<turns, turn, world, incTmp, res, pauseTmp, pauseVal, pauseRes>>
    /\ UNCHANGED <<brokerVars, updVars, quitVars, repVars, histVars>>
    /\ UNCHANGED shutVars

\* line 231: b.isPaused = isPaused
ProcSetPaused ==
    /\ Running
    /\ pc = "setPaused"
    /\ isPaused' = recv
    /\ pc' = "chkPaused"
    /\ UNCHANGED <<bTurns, bCellsCount, bWorld, turns, turn, world, recv, incTmp, res>>
    /\ UNCHANGED <<updVars, pauseVars, quitVars, repVars, histVars>>
    /\ UNCHANGED shutVars

\* line 232: if b.isPaused
ProcChkPaused ==
    /\ Running
    /\ pc = "chkPaused"
    /\ pc' = IF isPaused THEN "inner" ELSE "loop"
    /\ UNCHANGED <<turns, turn, world, recv, incTmp, res>>
    /\ UNCHANGED <<brokerVars, updVars, pauseVars, quitVars, repVars, histVars>>
    /\ UNCHANGED shutVars

\* line 234: <-b.pause, the value is dropped
ProcInnerRecv(c) ==
    /\ Running
    /\ pc = "inner"
    /\ pausePc[c] = "sending"
    /\ pausePc' = [pausePc EXCEPT ![c] = "sent"]
    /\ pc' = "loop"
    /\ UNCHANGED <<turns, turn, world, recv, incTmp, res, pauseTmp, pauseVal, pauseRes>>
    /\ UNCHANGED <<brokerVars, updVars, quitVars, repVars, histVars>>
    /\ UNCHANGED shutVars

\* lines 236-238: the select takes the quit signal; return nil leaves the
\* response as it was allocated
ProcSelectQuit ==
    /\ Running
    /\ pc = "loop"
    /\ turn < turns
    /\ quitPc = "sending"
    /\ quitPc' = "sent"
    /\ pc' = "quit"
    /\ UNCHANGED <<turns, turn, world, recv, incTmp, res, quitRes>>
    /\ UNCHANGED <<brokerVars, updVars, pauseVars, repVars, histVars>>
    /\ UNCHANGED shutVars

\* the RPC server writes the response of the run call to the client, and the
\* call's goroutine ends
ProcRespond ==
    /\ Running
    /\ pc \in {"done", "quit"}
    /\ pc' = "idle"
    /\ turns' = 0
    /\ turn' = 0
    /\ world' = EmptyWorld
    /\ recv' = FALSE
    /\ incTmp' = 0
    /\ res' = ZeroResponse
    /\ UNCHANGED <<brokerVars, updVars, pauseVars, quitVars, repVars, histVars>>
    /\ UNCHANGED shutVars

NoCaseReadyButQuit == \A c \in Pausers : pausePc[c] # "sending"

\* line 229: select runs default only when no case can proceed, that is when
\* no Pause call and no Quit call is at its send
NoCaseReady ==
    /\ \A c \in Pausers : pausePc[c] # "sending"
    /\ quitPc # "sending"

\* lines 239-240: no sender is ready, so the select runs default; World.update
\* is called when the flag is clear, else the loop polls again
ProcDefault ==
    /\ Running
    /\ pc = "loop"
    /\ turn < turns
    /\ NoCaseReady
    /\ pc' = IF ~isPaused THEN "update" ELSE "loop"
    /\ UNCHANGED <<turns, turn, world, recv, incTmp, res>>
    /\ UNCHANGED <<brokerVars, updVars, pauseVars, quitVars, repVars, histVars>>
    /\ UNCHANGED shutVars

\* line 244, b.Turns++: the read
ProcIncRead ==
    /\ Running
    /\ pc = "updated"
    /\ incTmp' = bTurns
    /\ pc' = "incWrite"
    /\ UNCHANGED <<turns, turn, world, recv, res>>
    /\ UNCHANGED <<brokerVars, updVars, pauseVars, quitVars, repVars, histVars>>
    /\ UNCHANGED shutVars

\* line 244, b.Turns++: the write
ProcIncWrite ==
    /\ Running
    /\ pc = "incWrite"
    /\ bTurns' = incTmp + 1
    /\ pc' = "cells"
    /\ UNCHANGED <<bCellsCount, bWorld, isPaused, turns, turn, world, recv, incTmp, res>>
    /\ UNCHANGED <<updVars, pauseVars, quitVars, repVars, histVars>>
    /\ UNCHANGED shutVars

\* line 245: b.CellsCount = len(world.alive())
ProcCells ==
    /\ Running
    /\ pc = "cells"
    /\ bCellsCount' = Cardinality(WorldAlive(world))
    /\ pc' = "publish"
    /\ UNCHANGED <<bTurns, bWorld, isPaused, turns, turn, world, recv, incTmp, res>>
    /\ UNCHANGED <<updVars, pauseVars, quitVars, repVars, histVars>>
    /\ UNCHANGED shutVars

\* lines 246-248: b.World = world; turn++
ProcPublish ==
    /\ Running
    /\ pc = "publish"
    /\ bWorld' = world
    /\ turn' = turn + 1
    /\ pc' = "loop"
    /\ UNCHANGED <<bTurns, bCellsCount, isPaused, turns, world, recv, incTmp, res>>
    /\ UNCHANGED <<updVars, pauseVars, quitVars, repVars, histVars>>
    /\ UNCHANGED shutVars

\* the run loop apart from its pause and quit cases
ProcessStep ==
    \/ ProcReturn
    \/ ProcRespond
    \/ ProcDefault
    \/ ProcIncRead
    \/ ProcIncWrite
    \/ ProcCells
    \/ ProcPublish

\* the pause case of the select, lines 230-235
ProcessPauseStep ==
    \/ \E c \in Pausers : ProcSelectPause(c)
    \/ ProcSetPaused
    \/ ProcChkPaused
    \/ \E c \in Pausers : ProcInnerRecv(c)

\* ------------------------------------------------ BrokerService.Pause

\* line 298, b.isPaused = !b.isPaused: the call arrives and reads the flag
PauseCall(c) ==
    /\ Running
    /\ pausePc[c] = "idle"
    /\ calls.pause > 0
    /\ pauseTmp' = [pauseTmp EXCEPT ![c] = isPaused]
    /\ pausePc' = [pausePc EXCEPT ![c] = "write"]
    /\ calls' = [calls EXCEPT !.pause = @ - 1]
    /\ hist' = [hist EXCEPT !.pauseBefore[c] = isPaused,
                            !.pauseInRun[c] = (pc # "idle"),
                            !.pausedAck = FALSE]
    /\ UNCHANGED <<pauseVal, pauseRes, reqWorld, gens>>
    /\ UNCHANGED <<brokerVars, procVars, updVars, quitVars, repVars>>
    /\ UNCHANGED shutVars

\* line 298: the write of the negation
PauseWrite(c) ==
    /\ Running
    /\ pausePc[c] = "write"
    /\ isPaused' = ~pauseTmp[c]
    /\ pausePc' = [pausePc EXCEPT ![c] = "eval"]
    /\ UNCHANGED <<bTurns, bCellsCount, bWorld, pauseTmp, pauseVal, pauseRes>>
    /\ UNCHANGED <<procVars, updVars, quitVars, repVars, histVars>>
    /\ UNCHANGED shutVars

\* line 299: the operand of the send is read; the call then waits at the
\* send until the run loop receives
PauseEval(c) ==
    /\ Running
    /\ pausePc[c] = "eval"
    /\ pauseVal' = [pauseVal EXCEPT ![c] = isPaused]
    /\ pausePc' = [pausePc EXCEPT ![c] = "sending"]
    /\ UNCHANGED <<pauseTmp, pauseRes>>
    /\ UNCHANGED <<brokerVars, procVars, updVars, quitVars, repVars, histVars>>
    /\ UNCHANGED shutVars

\* line 300: res.IsPaused = b.isPaused
PauseReadPaused(c) ==
    /\ Running
    /\ pausePc[c] = "sent"
    /\ pauseRes' = [pauseRes EXCEPT ![c] = isPaused]
    /\ pausePc' = [pausePc EXCEPT ![c] = "turns"]
    /\ UNCHANGED <<pauseTmp, pauseVal>>
    /\ UNCHANGED <<brokerVars, procVars, updVars, quitVars, repVars, histVars>>
    /\ UNCHANGED shutVars

\* the response of a Pause call at its return, lines 300-301
PauseResponse(c) == [IsPaused |-> pauseRes[c], Turns |-> bTurns]

\* lines 301-302: res.Turns = b.Turns; return PauseResponse(c)
PauseReturn(c) ==
    /\ Running
    /\ pausePc[c] = "turns"
    /\ pausePc' = [pausePc EXCEPT ![c] = "idle"]
    /\ pauseTmp' = [pauseTmp EXCEPT ![c] = FALSE]
    /\ pauseVal' = [pauseVal EXCEPT ![c] = FALSE]
    /\ pauseRes' = [pauseRes EXCEPT ![c] = FALSE]
    /\ hist' = [hist EXCEPT !.pausedAck = (@ \/ (hist.pauseInRun[c] /\ pauseRes[c])),
                            !.pauseBefore[c] = FALSE,
                            !.pauseInRun[c] = FALSE,
                            !.stalePause[c] = FALSE]
    /\ UNCHANGED <<reqWorld, gens, calls>>
    /\ UNCHANGED <<brokerVars, procVars, updVars, quitVars, repVars>>
    /\ UNCHANGED shutVars

PauseStep(c) ==
    \/ PauseWrite(c)
    \/ PauseEval(c)
    \/ PauseReadPaused(c)
    \/ PauseReturn(c)

\* ------------------------------------------------- BrokerService.Quit

\* line 266: the call arrives; res.Turns = b.Turns
QuitCall ==
    /\ Running
    /\ quitPc = "idle"
    /\ calls.quit > 0
    /\ quitRes' = [Turns |-> bTurns]
    /\ quitPc' = "turns"
    /\ calls' = [calls EXCEPT !.quit = @ - 1]
    /\ hist' = [hist EXCEPT !.quitInRun = (pc # "idle")]
    /\ UNCHANGED <<reqWorld, gens>>
    /\ UNCHANGED <<brokerVars, procVars, updVars, pauseVars, repVars>>
    /\ UNCHANGED shutVars

\* line 268: b.Turns = 0
QuitResetTurns ==
    /\ Running
    /\ quitPc = "turns"
    /\ bTurns' = 0
    /\ quitPc' = "cells"
    /\ UNCHANGED <<bCellsCount, bWorld, isPaused, quitRes>>
    /\ UNCHANGED <<procVars, updVars, pauseVars, repVars, histVars>>
    /\ UNCHANGED shutVars

\* line 269: b.CellsCount = 0
QuitResetCells ==
    /\ Running
    /\ quitPc = "cells"
    /\ bCellsCount' = 0
    /\ quitPc' = "world"
    /\ UNCHANGED <<bTurns, bWorld, isPaused, quitRes>>
    /\ UNCHANGED <<procVars, updVars, pauseVars, repVars, histVars>>
    /\ UNCHANGED shutVars

\* lines 270-272: b.World = World{}; the call then waits at the send on
\* b.quit until the run loop receives
QuitResetWorld ==
    /\ Running
    /\ quitPc = "world"
    /\ bWorld' = EmptyWorld
    /\ quitPc' = "sending"
    /\ UNCHANGED <<bTurns, bCellsCount, isPaused, quitRes>>
    /\ UNCHANGED <<procVars, updVars, pauseVars, repVars, histVars>>
    /\ UNCHANGED shutVars

\* line 274: return quitRes
QuitReturn ==
    /\ Running
    /\ quitPc = "sent"
    /\ quitPc' = "idle"
    /\ quitRes' = [Turns |-> 0]
    /\ hist' = [hist EXCEPT !.quitAck = hist.quitInRun, !.quitInRun = FALSE,
                            !.staleQuit = FALSE]
    /\ UNCHANGED <<reqWorld, gens, calls>>
    /\ UNCHANGED <<brokerVars, procVars, updVars, pauseVars, repVars>>
    /\ UNCHANGED shutVars

QuitStep ==
    \/ QuitResetTurns
    \/ QuitResetCells
    \/ QuitResetWorld
    \/ QuitReturn

\* ----------------------------------------------- BrokerService.Report

\* line 217: the call arrives; res.Turns = b.Turns
ReportCall ==
    /\ Running
    /\ repPc = "idle"
    /\ calls.report > 0
    /\ repRes' = bTurns
    /\ repPc' = "cells"
    /\ calls' = [calls EXCEPT !.report = @ - 1]
    /\ hist' = [hist EXCEPT !.repAfterQuit = hist.quitAck]
    /\ UNCHANGED <<reqWorld, gens>>
    /\ UNCHANGED <<brokerVars, procVars, updVars, pauseVars, quitVars>>
    /\ UNCHANGED shutVars

\* the response of a Report call at its return, lines 217-218
ReportResponse == [Turns |-> repRes, CellsCount |-> bCellsCount]

\* lines 218-219: res.CellsCount = b.CellsCount; return ReportResponse
ReportReturn ==
    /\ Running
    /\ repPc = "cells"
    /\ repRes' = 0
    /\ repPc' = "idle"
    /\ hist' = [hist EXCEPT !.repAfterQuit = FALSE]
    /\ UNCHANGED <<reqWorld, gens, calls>>
    /\ UNCHANGED <<brokerVars, procVars, updVars, pauseVars, quitVars>>
    /\ UNCHANGED shutVars

\* --------------------------------------------- BrokerService.Shutdown

\* line 278: the call arrives; the range over b.addresses starts
ShutdownCall ==
    /\ Running
    /\ shutPc = "idle"
    /\ calls.shutdown > 0
    /\ shutPc' = "dial"
    /\ shutIdx' = 0
    /\ calls' = [calls EXCEPT !.shutdown = @ - 1]
    /\ UNCHANGED <<broker, workerUp, reqWorld, gens, hist>>
    /\ UNCHANGED <<brokerVars, procVars, updVars, pauseVars, quitVars, repVars>>

\* lines 279-282: rpc.Dial of b.addresses[shutIdx]; log.Fatal when it fails
ShutdownDial ==
    /\ Running
    /\ shutPc = "dial"
    /\ shutIdx < NumAddresses
    /\ IF workerUp[shutIdx]
       THEN shutPc' = "call" /\ broker' = broker
       ELSE shutPc' = shutPc /\ broker' = "fatal"
    /\ UNCHANGED <<shutIdx, workerUp>>
    /\ UNCHANGED <<brokerVars, procVars, updVars, pauseVars, quitVars, repVars, histVars>>

\* WorkerService.Shutdown and the worker's main (worker, lines 108-111 and
\* 128-131): the request reaches the worker, whose handler sends on
\* w.shutdown; its main receives, closes the listener and returns, which
\* ends the worker process
WorkerShutdown(w) ==
    /\ workerUp[w]
    /\ workerUp' = [workerUp EXCEPT ![w] = FALSE]

\* lines 286-289: client.Call(WorkerShutdown, ...) on b.addresses[shutIdx]
\* returns, with the worker's answer or with the error of the closed
\* connection, and the range goes on
ShutdownSend ==
    /\ Running
    /\ shutPc = "call"
    /\ WorkerShutdown(shutIdx)
    /\ shutIdx' = shutIdx + 1
    /\ shutPc' = "dial"
    /\ UNCHANGED broker
    /\ UNCHANGED <<brokerVars, procVars, updVars, pauseVars, quitVars, repVars, histVars>>

\* line 291, b.shutdown <- true, received by main at line 328
ShutdownSignal ==
    /\ Running
    /\ shutPc = "dial"
    /\ shutIdx = NumAddresses
    /\ broker = "up"
    /\ broker' = "signalled"
    /\ shutPc' = "turns"
    /\ UNCHANGED <<shutIdx, workerUp>>
    /\ UNCHANGED <<brokerVars, procVars, updVars, pauseVars, quitVars, repVars, histVars>>

\* lines 293-294: res.Turns = b.Turns; return
ShutdownReturn ==
    /\ Running
    /\ shutPc = "turns"
    /\ shutPc' = "idle"
    /\ shutIdx' = 0
    /\ UNCHANGED <<broker, workerUp>>
    /\ UNCHANGED <<brokerVars, procVars, updVars, pauseVars, quitVars, repVars, histVars>>

\* main, lines 330-331: listener.Close() and the return of main, which ends
\* the broker process with every goroutine of it
BrokerMainExit ==
    /\ broker = "signalled"
    /\ broker' = "exited"
    /\ UNCHANGED <<shutPc, shutIdx, workerUp>>
    /\ UNCHANGED <<brokerVars, procVars, updVars, pauseVars, quitVars, repVars, histVars>>

ShutdownStep ==
    \/ ShutdownDial
    \/ ShutdownSend
    \/ ShutdownSignal
    \/ ShutdownReturn

\* ---------------------------------------------------------------- Spec
\* The broker after main has built it (lines 310-316), its clients' calls
\* and its workers.

NoHistory ==
    [pauseBefore |-> [c \in Pausers |-> FALSE],
     pauseInRun |-> [c \in Pausers |-> FALSE],
     pausedAck |-> FALSE,
     quitInRun |-> FALSE,
     quitAck |-> FALSE,
     repAfterQuit |-> FALSE,
     staleQuit |-> FALSE,
     stalePause |-> [c \in Pausers |-> FALSE]]

InitCallers ==
    /\ pausePc = [c \in Pausers |-> "idle"]
    /\ pauseTmp = [c \in Pausers |-> FALSE]
    /\ pauseVal = [c \in Pausers |-> FALSE]
    /\ pauseRes = [c \in Pausers |-> FALSE]
    /\ quitPc = "idle"
    /\ quitRes = [Turns |-> 0]
    /\ repPc = "idle"
    /\ repRes = 0
    /\ shutPc = "idle"
    /\ shutIdx = 0
    /\ hist = NoHistory

InitBroker ==
    /\ bTurns = 0
    /\ bCellsCount = 0
    /\ bWorld = EmptyWorld
    /\ isPaused = FALSE
    /\ turns = 0
    /\ turn = 0
    /\ recv = FALSE
    /\ incTmp = 0
    /\ res = ZeroResponse
    /\ regions = <<>>
    /\ replies = <<>>
    /\ newFieldData = <<>>
    /\ wIdx = 0
    /\ dialed = {}
    /\ gens = 0
    /\ broker = "up"

InitIdle ==
    /\ InitBroker
    /\ InitCallers
    /\ pc = "idle"
    /\ world = EmptyWorld
    /\ reqWorld = EmptyWorld
    /\ numWorkers = NumAddresses
    /\ workerUp = [w \in 0..(NumAddresses - 1) |-> TRUE]

\* a run and the workers
RunNext ==
    \/ \E n \in 1..MaxTurns : StartRun(n)
    \/ ProcessStep
    \/ WorldUpdateStep

\* the Pause calls and the run loop's handling of them
PauseNext ==
    \/ \E c \in Pausers : PauseCall(c) \/ PauseStep(c)
    \/ ProcessPauseStep

\* the Quit calls and the run loop's handling of them
QuitNext ==
    \/ QuitCall
    \/ QuitStep
    \/ ProcSelectQuit

ReportNext ==
    \/ ReportCall
    \/ ReportReturn

\* One run, with up to MaxPauseCalls Pause calls of two clients, one Quit
\* and one Report call.
Init ==
    /\ InitIdle
    /\ calls = [run |-> 1, pause |-> MaxPauseCalls, quit |-> 1, report |-> 1, shutdown |-> 0]

Next ==
    \/ RunNext
    \/ PauseNext
    \/ QuitNext
    \/ ReportNext

Spec == Init /\ [][Next]_vars

\* ------------------------------------------------------------ SpecRuns
\* Up to MaxRuns runs, one after the other, and no other call.

InitRuns ==
    /\ InitIdle
    /\ calls = [run |-> MaxRuns, pause |-> 0, quit |-> 0, report |-> 0, shutdown |-> 0]

SpecRuns == InitRuns /\ [][RunNext]_vars

\* ----------------------------------------------------------- SpecPause
\* One run, with up to MaxPauseCalls Pause calls of two clients.

InitPause ==
    /\ InitIdle
    /\ calls = [run |-> 1, pause |-> MaxPauseCalls, quit |-> 0, report |-> 0, shutdown |-> 0]

NextPause ==
    \/ RunNext
    \/ PauseNext

SpecPause == InitPause /\ [][NextPause]_vars

\* ------------------------------------------------------------ SpecQuit
\* One run, with one Quit and one Report call.

InitQuit ==
    /\ InitIdle
    /\ calls = [run |-> 1, pause |-> 0, quit |-> 1, report |-> 1, shutdown |-> 0]

NextQuit ==
    \/ RunNext
    \/ QuitNext
    \/ ReportNext

SpecQuit == InitQuit /\ [][NextQuit]_vars

\* ------------------------------------------------------------ SpecFair
\* One run, with up to MaxPauseCalls Pause calls and one Quit call.  Every
\* step of the broker and of its workers is eventually taken when it stays
\* possible (the Go scheduler runs every runnable goroutine, the workers
\* respond); the clients need not call.

InitFair ==
    /\ InitIdle
    /\ calls = [run |-> 1, pause |-> MaxPauseCalls, quit |-> 1, report |-> 0, shutdown |-> 0]

NextFair ==
    \/ RunNext
    \/ PauseNext
    \/ QuitNext

BrokerStep ==
    \/ ProcessStep
    \/ ProcessPauseStep
    \/ ProcSelectQuit
    \/ WorldUpdateStep
    \/ \E c \in Pausers : PauseStep(c)
    \/ QuitStep

SpecFair == InitFair /\ [][NextFair]_vars /\ WF_vars(BrokerStep)

\* ------------------------------------------------------------- SpecCtl
\* One run of MaxTurns turns, with one Pause call of each of the two clients
\* and one Quit call.

InitCtl ==
    /\ InitIdle
    /\ calls = [run |-> 1, pause |-> Cardinality(Pausers), quit |-> 1, report |-> 0,
                shutdown |-> 0]

NextCtl ==
    \/ StartRun(MaxTurns)
    \/ ProcessStep
    \/ WorldUpdateStep
    \/ PauseNext
    \/ QuitNext

SpecCtl == InitCtl /\ [][NextCtl]_vars

\* ---------------------------------------------------------- SpecResume
\* One run and one client, which issues its Pause calls one after the other,
\* an even number of them: every pause is followed by a resume.  Every step
\* of the broker and of its workers is eventually taken when it stays
\* possible, and the client eventually makes its next call.

InitResume ==
    /\ InitIdle
    /\ calls = [run |-> 1, pause |-> 2 * (MaxPauseCalls \div 2), quit |-> 0, report |-> 0,
                shutdown |-> 0]

NextResume ==
    \/ RunNext
    \/ PauseCall("p1")
    \/ PauseStep("p1")
    \/ ProcessPauseStep

SpecResume ==
    InitResume /\ [][NextResume]_vars /\ WF_vars(BrokerStep) /\ WF_vars(PauseCall("p1"))

\* -------------------------------------------------------- SpecShutdown
\* One run and one Shutdown call.

InitShutdown ==
    /\ InitIdle
    /\ calls = [run |-> 1, pause |-> 0, quit |-> 0, report |-> 0, shutdown |-> 1]

NextShutdown ==
    \/ RunNext
    \/ WorkerFailStep
    \/ ShutdownCall
    \/ ShutdownStep
    \/ BrokerMainExit

SpecShutdown == InitShutdown /\ [][NextShutdown]_vars

\* ------------------------------------------------------------ SpecGrid
\* One call of World.update on every grid of at most MaxCells cells, for
\* every worker count 1 <= k <= Height (k <= MaxWorkers).

Shapes == {hw \in (1..MaxCells) \X (1..MaxCells) : hw[1] * hw[2] <= MaxCells}

GridWorlds ==
    UNION {{populate(hw[1], hw[2], a) : a \in SUBSET ((0..(hw[2] - 1)) \X (0..(hw[1] - 1)))} :
           hw \in Shapes}

Min(a, b) == IF a < b THEN a ELSE b

InitGrid ==
    /\ InitBroker
    /\ InitCallers
    /\ world \in GridWorlds
    /\ numWorkers \in 1..Min(world.Height, MaxWorkers)
    /\ workerUp = [w \in 0..(numWorkers - 1) |-> TRUE]
    /\ reqWorld = world
    /\ pc = "update"
    /\ calls = [run |-> 0, pause |-> 0, quit |-> 0, report |-> 0, shutdown |-> 0]

NextGrid == WorldUpdateStep

SpecGrid == InitGrid /\ [][NextGrid]_vars

\* ----------------------------------------------------------- SpecShape
\* One run of 1 .. MaxTurns turns on any grid of at most MaxCells cells,
\* which the broker partitions across its NumAddresses workers.

InitShape ==
    /\ InitIdle
    /\ calls = [run |-> 1, pause |-> 0, quit |-> 0, report |-> 0, shutdown |-> 0]

\* the run call of the client, on any grid
StartRunAny ==
    /\ pc = "idle"
    /\ calls.run > 0
    /\ \E n \in 1..MaxTurns, w \in GridWorlds : StartRunWith(n, w)

NextShape ==
    \/ StartRunAny
    \/ ProcessStep
    \/ WorldUpdateStep

SpecShape == InitShape /\ [][NextShape]_vars


\* ------------------------------------------------------------- claims

\* the rule step on the whole grid as a single region (workers = 1)
Generation(w) == [w EXCEPT !.Field.Data = RegionUpdate(WorldRegion(w, 0, 1)).Field]

RECURSIVE Gen(_, _)
\* the world w advanced by n generations
Gen(w, n) == IF n = 0 THEN w ELSE Generation(Gen(w, n - 1))

\* C1: for every world and every worker count 1 <= k <= Height, the grid
\* World.update assembles from the k workers' bands is the grid the rule step
\* yields on the whole grid as a single region.
C1_PartitionEquivalence ==
    pc = "updated" => world = Generation(reqWorld)

\* two workers on three rows (bands of 1 and 2 rows), and the grid changed
C1_Witness ==
    /\ pc = "updated"
    /\ numWorkers = 2
    /\ reqWorld.Height = 3
    /\ reqWorld.Width = 3
    /\ world # reqWorld
    /\ WorldAlive(world) # {}

B2N(b) == IF b THEN 1 ELSE 0

\* the alive cells among the 8 neighbours of the cell at row r, column c
\* (1-based) of rows f of width w: the rows r-1, r, r+1, the columns wrapped
EightNeighbours(f, w, r, c) ==
    LET left == IF c = 1 THEN w ELSE c - 1
        right == IF c = w THEN 1 ELSE c + 1
    IN  B2N(f[r - 1][left].Alive) + B2N(f[r - 1][c].Alive) + B2N(f[r - 1][right].Alive)
        + B2N(f[r][left].Alive) + B2N(f[r][right].Alive)
        + B2N(f[r + 1][left].Alive) + B2N(f[r + 1][c].Alive) + B2N(f[r + 1][right].Alive)

RuleApplied(in, out) ==
    /\ Len(out) = in.Height
    /\ \A yy \in 1..in.Height :
        /\ Len(out[yy]) = in.Width
        /\ \A xx \in 1..in.Width :
            LET n == EightNeighbours(in.Field, in.Width, yy + 1, xx)
                cur == in.Field[yy + 1][xx].Alive
                nxt == out[yy][xx].Alive
            IN  /\ n = 3 => nxt
                /\ (n = 2 /\ cur) => nxt
                /\ (n = 2 /\ ~cur) => ~nxt
                /\ (n < 2 \/ n > 3) => ~nxt

\* C2: every cell of the band a worker returns is alive if the cell of the
\* region it was sent has exactly 3 alive neighbours, keeps its state if it
\* has 2, and is dead otherwise; the count is taken on the region sent.
C2_RuleApplied ==
    \A w \in DOMAIN replies :
        replies[w] # NoReply => RuleApplied(regions[w], replies[w][1])

\* a worker answered on a region at least 3 cells wide in which a dead cell
\* with 3 alive neighbours is born, a live cell with 2 survives and a live
\* cell with more than 3 dies
C2_Witness ==
    \E w \in DOMAIN replies :
        /\ replies[w] # NoReply
        /\ regions[w].Width >= 3
        /\ \E yy \in 1..regions[w].Height, xx \in 1..regions[w].Width :
            /\ ~regions[w].Field[yy + 1][xx].Alive
            /\ EightNeighbours(regions[w].Field, regions[w].Width, yy + 1, xx) = 3
            /\ replies[w][1][yy][xx].Alive
        /\ \E yy \in 1..regions[w].Height, xx \in 1..regions[w].Width :
            /\ regions[w].Field[yy + 1][xx].Alive
            /\ EightNeighbours(regions[w].Field, regions[w].Width, yy + 1, xx) = 2
            /\ replies[w][1][yy][xx].Alive
        /\ \E yy \in 1..regions[w].Height, xx \in 1..regions[w].Width :
            /\ regions[w].Field[yy + 1][xx].Alive
            /\ EightNeighbours(regions[w].Field, regions[w].Width, yy + 1, xx) > 3
            /\ ~replies[w][1][yy][xx].Alive

RECURSIVE SumHeights(_, _)
SumHeights(rs, n) == IF n = 0 THEN 0 ELSE rs[n - 1].Height + SumHeights(rs, n - 1)

\* C3: the row ranges [Start, End) of the regions of workers 0 .. k-1 are
\* contiguous, do not overlap, cover [0, Height) exactly once, and their
\* heights End - Start sum to Height.
C3_PartitionCovers ==
    regions # <<>> =>
        /\ DOMAIN regions = 0..(numWorkers - 1)
        /\ regions[0].Start = 0
        /\ regions[numWorkers - 1].End = world.Height
        /\ \A w \in 0..(numWorkers - 2) : regions[w].End = regions[w + 1].Start
        /\ \A w \in DOMAIN regions : regions[w].Height = regions[w].End - regions[w].Start
        /\ \A v, w \in DOMAIN regions :
            v # w => (regions[v].End <= regions[w].Start \/ regions[w].End <= regions[v].Start)
        /\ \A r \in 0..(world.Height - 1) :
            Cardinality({w \in DOMAIN regions : regions[w].Start <= r /\ r < regions[w].End}) = 1
        /\ SumHeights(regions, numWorkers) = world.Height

\* three workers on five rows: bands of 1, 1 and 3 rows
C3_Witness ==
    /\ regions # <<>>
    /\ numWorkers = 3
    /\ world.Height = 5
    /\ regions[2].Height = 3

\* C4: the last row of worker w's region (its halo below) is the world row at
\* which the band of worker (w+1) mod k starts, which is that worker's first
\* band row; for the last worker it is world row 0.
C4_HaloBelowIsNextBand ==
    regions # <<>> =>
        \A w \in DOMAIN regions :
            LET nxt == (w + 1) % numWorkers
                halo == regions[w].Field[regions[w].Height + 2]
            IN  /\ halo = world.Field.Data[regions[nxt].Start + 1]
                /\ halo = regions[nxt].Field[2]
                /\ w = numWorkers - 1 => halo = world.Field.Data[1]

\* three workers on four rows, regions dispatched
C4_Witness ==
    /\ regions # <<>>
    /\ numWorkers = 3
    /\ world.Height = 4
    /\ regions[2].Field[4] = world.Field.Data[1]
    /\ regions[0].Field[3] = world.Field.Data[2]

\* C5: a run call of N turns that no quit aborts returns the request World
\* advanced by N generations and Turns = N, on every run call.
C5_RunReturnsRequestedTurns ==
    pc = "done" => (res.World = Gen(reqWorld, turns) /\ res.Turns = turns)

\* C6: once a Pause call issued during a run has returned IsPaused = true,
\* b.Turns (the Turns of a Report) does not increase until a further Pause
\* call is issued.
C6_PausedTurnsFrozen ==
    [][hist.pausedAck => bTurns' <= bTurns]_vars

\* C7: a Report call made after a Quit call issued during a run has returned,
\* and before a new run starts, returns Turns = 0 and CellsCount = 0.
C7_ReportAfterQuitIsCleared ==
    [][(repPc = "cells" /\ repPc' = "idle" /\ hist.repAfterQuit)
        => (ReportResponse.Turns = 0 /\ ReportResponse.CellsCount = 0)]_vars

\* C8: a run that observes a quit after j < N generations returns without
\* computing the others, its response carrying the request World advanced by
\* j generations.
C8_QuitReturnsReachedWorld ==
    pc = "quit" => (gens < turns /\ res.World = Gen(reqWorld, gens))

\* C9: every Pause call and every Quit call eventually returns.
C9_CallsReturn ==
    /\ \A c \in Pausers : (pausePc[c] # "idle") ~> (pausePc[c] = "idle")
    /\ (quitPc # "idle") ~> (quitPc = "idle")

\* C10: the IsPaused value a Pause call returns is the negation of the flag
\* before the call.
C10_PauseReturnsNegation ==
    [][\A c \in Pausers :
        (pausePc[c] = "turns" /\ pausePc'[c] = "idle")
            => PauseResponse(c).IsPaused = ~hist.pauseBefore[c]]_vars

\* C11: a Shutdown call sends the worker shutdown request to every address
\* of b.addresses before the broker stops: whenever the broker process has
\* stopped accepting connections, every worker has received the request (and
\* has closed its listener).
C11_ShutdownReachesEveryWorker ==
    ~Running => \A w \in DOMAIN workerUp : ~workerUp[w]

\* the grid has all the rows its Height declares
RowsComplete(w) == Len(w.Field.Data) = w.Height

\* C13: a generation in which the compute call to a worker failed is not
\* counted in b.Turns, and no World lacking that worker's rows is published
\* as b.World or returned by the run call.
C13_FailedTurnNotPublished ==
    [][/\ bTurns' > bTurns => RowsComplete(world)
       /\ RowsComplete(bWorld')
       /\ pc' = "done" => RowsComplete(res'.World)]_vars

\* the cleared state, or the counters of the world after t generations
ConsistentReport(r) ==
    \/ r.Turns = 0 /\ r.CellsCount = 0
    \/ \E t \in 0..MaxTurns :
        /\ r.Turns = t
        /\ r.CellsCount = Cardinality(WorldAlive(Gen(reqWorld, t)))

\* C12: the response of every Report call is a consistent snapshot: its
\* Turns is a number t of completed generations and its CellsCount the
\* number of alive cells after t generations, or it is the cleared state.
C12_ReportIsSnapshot ==
    [][(repPc = "cells" /\ repPc' = "idle") => ConsistentReport(ReportResponse)]_vars

\* C14: a run request whose grid height the worker count exceeds or does not
\* divide is rejected before the run starts: no region is dispatched, no
\* generation computed, the session state unchanged.
C14_BadPartitionRejected ==
    (pc # "idle" /\ (numWorkers > reqWorld.Height \/ reqWorld.Height % numWorkers # 0))
        => /\ regions = <<>>
           /\ gens = 0
           /\ bTurns = 0 /\ bCellsCount = 0 /\ bWorld = EmptyWorld

\* w declares and has h rows of wd cells
Shaped(w, h, wd) ==
    /\ w.Height = h /\ w.Width = wd
    /\ Len(w.Field.Data) = h
    /\ \A y \in 1..h : Len(w.Field.Data[y]) = wd

\* C20: in a run whose workers all respond, the broker's world, the session
\* snapshot and the World the run returns have the Height rows of Width
\* cells of the request World, and every worker returns End - Start rows of
\* Width cells.
C20_ShapeInvariant ==
    /\ pc # "idle" => Shaped(world, reqWorld.Height, reqWorld.Width)
    /\ bWorld # EmptyWorld => Shaped(bWorld, reqWorld.Height, reqWorld.Width)
    /\ pc = "done" => Shaped(res.World, reqWorld.Height, reqWorld.Width)
    /\ \A w \in DOMAIN replies :
        replies[w] # NoReply =>
            /\ Len(replies[w][1]) = regions[w].End - regions[w].Start
            /\ \A y \in 1..Len(replies[w][1]) : Len(replies[w][1][y]) = reqWorld.Width

\* a run of 2 turns on 3 rows (bands of 1 and 2 rows) has returned, the
\* snapshot being the returned World with some cell alive
C20_Witness ==
    /\ pc = "done"
    /\ turns = 2 /\ gens = 2
    /\ reqWorld.Height = 3 /\ reqWorld.Width = 3
    /\ bWorld = res.World
    /\ WorldAlive(res.World) # {}

\* C15: while a Quit call is pending (at its send on b.quit) the run loop
\* starts no generation: it does not go from the select to World.update, so
\* that at most the generation in flight is completed.
C15_NoGenerationAfterQuitPending ==
    [][quitPc = "sending" => ~(pc = "loop" /\ pc' = "update")]_vars

\* a Quit call is pending at the start of an iteration of a run that has
\* computed a generation and has turns left, the flag clear, no Pause pending
C15_Witness ==
    /\ quitPc = "sending"
    /\ pc = "loop"
    /\ turn < turns
    /\ gens >= 1
    /\ ~isPaused
    /\ \A c \in Pausers : pausePc[c] # "sending"

\* C16: when a pause signal and a quit signal are both pending at the start
\* of an iteration, the iteration handles the pause signal; a generation is
\* computed only when neither is pending.
C16_PauseBeforeQuit ==
    [][(pc = "loop" /\ turn < turns)
        => /\ ((\E c \in Pausers : pausePc[c] = "sending") /\ quitPc = "sending")
                => pc' # "quit"
           /\ pc' = "update"
                => ((\A c \in Pausers : pausePc[c] # "sending") /\ quitPc # "sending")]_vars

\* C17: a Quit call made while the run is suspended in the paused state
\* (line 234), with no Pause call in progress, returns unless a further
\* Pause call is made, and so does the run call.
C17_QuitReleasesPausedRun ==
    (pc = "inner" /\ quitPc = "sending" /\ \A c \in Pausers : pausePc[c] = "idle")
        ~> ((quitPc = "idle" /\ pc = "idle") \/ \E c \in Pausers : pausePc[c] # "idle")

RECURSIVE Bands(_, _, _)
\* the bands the workers 0 .. k-1 of n return on world w, in index order
Bands(w, k, n) ==
    IF k = 0 THEN <<>>
    ELSE Bands(w, k - 1, n) \o WorkerProcess(WorldRegion(w, k - 1, n)).Field

\* C18: whatever the order in which the workers deliver, the fan-in has
\* assembled the bands of the workers 0 .. w-1 in index order, it can always
\* go on (no deadlock), and the new grid is the bands of all workers in index
\* order.
C18_FanInInIndexOrder ==
    /\ pc = "collect" =>
        /\ newFieldData = Bands(reqWorld, wIdx, numWorkers)
        /\ ENABLED WorldUpdateStep
    /\ pc = "updated" => world.Field.Data = Bands(reqWorld, numWorkers, numWorkers)

\* three workers: the band of worker 0 is in place, worker 2 has delivered
\* before worker 1
C18_Witness ==
    /\ pc = "collect"
    /\ numWorkers = 3
    /\ wIdx = 1
    /\ replies[1] = NoReply
    /\ replies[2] # NoReply
    /\ WorldAlive(reqWorld) # {}

\* every worker of the generation has delivered its response
AllResponded == \A w \in 0..(numWorkers - 1) : replies[w] # NoReply

\* C19: World.update returns only when every dispatched worker has
\* responded, and b.Turns is incremented only for a generation whose
\* World.update has returned.
C19_TurnWaitsForEveryWorker ==
    [][/\ gens' > gens => AllResponded
       /\ bTurns' > bTurns => gens = turn + 1]_vars

\* the second generation of a run waits for worker 1, b.Turns still 1
C19_Witness ==
    /\ pc = "collect"
    /\ wIdx = 1
    /\ replies[1] = NoReply
    /\ gens = 1
    /\ bTurns = 1

\* C21: with no quit and every pause followed by a resume, a run of N turns
\* eventually returns, and it returns with N generations computed.
C21_RunOfNTurnsReturns ==
    /\ [](pc = "done" => gens = turns)
    /\ (pc = "loop") ~> (pc = "done")

\* C22: a pause or quit signal issued when no run was in progress is not
\* carried over to the next run: the run loop takes no signal of a Quit or
\* Pause call that was already at its send when the run started, so that the
\* run is neither aborted nor suspended by it.
C22_NoSignalCarriedOver ==
    [][pc = "loop" =>
        /\ pc' = "quit" => ~hist.staleQuit
        /\ \A c \in Pausers :
            (pc' = "setPaused" /\ pausePc[c] = "sending" /\ pausePc'[c] = "sent")
                => ~hist.stalePause[c]]_vars

====
